---- MODULE Spec2Model ----
(***************************************************************************)
(* sgxwasm: the "spectest" host module (SpecModule), the module registry   *)
(* and two-level import resolver (SpecDriver) and the boundary value       *)
(* marshaller (BoundaryValue and its conversions).                         *)
(*                                                                         *)
(* Every method of the source is a pure operator over the receiver's       *)
(* fields that yields a Result; every action is one call of one method by  *)
(* the driving loop, and records the call in `op` and its outcome in       *)
(* `ret`.  A Rust panic is the outcome Panic(..): it ends the process.     *)
(***************************************************************************)
EXTENDS Integers, Sequences, FiniteSets, TLC

VARIABLES
    spec_module,   \* SpecDriver.spec_module: the host environment's handles
    instances,     \* SpecDriver.instances: HashMap<String, ModuleRef>
    last_module,   \* SpecDriver.last_module: Option<ModuleRef>
    printed,       \* what the call made last has written with println!
    status,        \* "running", or "aborted" once a panic has happened
    op,            \* the call made last
    ret,           \* what that call returned
    written,       \* history: name -> module of the latest add/register under it
    added,         \* history: add_module has been called by the driving loop
    stored,        \* history: the module the latest add/register has stored
    store,         \* the instances behind the host's handles: handle -> content
    held           \* the memory and table handles each importing module holds

vars == <<spec_module, instances, last_module, printed, status, op, ret,
          written, added, stored, store, held>>

----------------------------------------------------------------------------
(* Bounds of the model *)

\* ModuleRefs the interpreter has handed out are 1..MaxHandles
MaxHandles == 2
\* host function indices the dispatcher is called with are 0..MaxIndex
MaxIndex == 1
\* modules that import from the host environment are 1..MaxImporters
MaxImporters == 2

Handles == 1..MaxHandles
Importers == 1..MaxImporters

\* module names used as registry keys and as import module names
Names == {"spectest", "m", "a"}

\* import field names
PrintNames == {"print", "print_i32", "print_i32_f32", "print_f64_f64",
               "print_f32", "print_f64"}
FieldNames == PrintNames \cup {"global_i32", "global_f32", "global_f64",
                               "memory", "table", "f", "nope"}

----------------------------------------------------------------------------
(* Option and Result *)

None == [some |-> FALSE]
Some(x) == [some |-> TRUE, val |-> x]

Ok(v) == [tag |-> "Ok", val |-> v]
Err(e) == [tag |-> "Err", err |-> e]
Panic(m) == [tag |-> "Panic", msg |-> m]
Unit == "()"

IsOk(r) == r.tag = "Ok"
IsErr(r) == r.tag = "Err"
IsPanic(r) == r.tag = "Panic"

\* InterpreterError::Instantiation(String); format! pieces are kept as a tuple
Instantiation(msg) == [kind |-> "Instantiation", msg |-> msg]

----------------------------------------------------------------------------
(* Signatures and descriptors handed in by the interpreter *)

\* Signature: parameter types and Option<ValueType> return type
Signatures ==
    { [params |-> <<>>, return_type |-> None],
      [params |-> <<"I32">>, return_type |-> None],
      [params |-> <<"F64", "F64">>, return_type |-> None],
      [params |-> <<"I32">>, return_type |-> Some("I32")] }

GlobalDescriptors == { [value_type |-> "I32", mutable |-> FALSE],
                       [value_type |-> "F64", mutable |-> TRUE] }
MemoryDescriptors == { [initial |-> 1, maximum |-> Some(2)],
                       [initial |-> 0, maximum |-> None] }
TableDescriptors == { [initial |-> 10, maximum |-> Some(20)],
                      [initial |-> 0, maximum |-> None] }

----------------------------------------------------------------------------
(* SpecModule: the host environment *)

PRINT_FUNC_INDEX == 0

\* SpecModule::new: one table, one memory and three globals, allocated once
SpecModuleNew ==
    [ table      |-> [kind |-> "table", owner |-> "spectest", field |-> "table"],
      memory     |-> [kind |-> "memory", owner |-> "spectest", field |-> "memory"],
      global_i32 |-> [kind |-> "global", owner |-> "spectest", field |-> "global_i32"],
      global_f32 |-> [kind |-> "global", owner |-> "spectest", field |-> "global_f32"],
      global_f64 |-> [kind |-> "global", owner |-> "spectest", field |-> "global_f64"] ]

\* SpecModule::new: what the allocated instances hold.  A table of 10
\* elements that grows to 20, a memory of 1 page that grows to 2, and three
\* immutable globals of value 666 (as bit patterns, see the marshaller).
HostStoreNew ==
    [ref \in {SpecModuleNew.table, SpecModuleNew.memory, SpecModuleNew.global_i32,
              SpecModuleNew.global_f32, SpecModuleNew.global_f64} |->
        CASE ref.kind = "table" -> [size |-> 10, maximum |-> 20]
          [] ref.kind = "memory" -> [size |-> 1, maximum |-> 2]
          [] ref.field = "global_i32" ->
                 [mutable |-> FALSE, tag |-> "I32", bits |-> <<666, 0>>]
          [] ref.field = "global_f32" ->
                 [mutable |-> FALSE, tag |-> "F32", bits |-> <<32768, 17446>>]
          [] ref.field = "global_f64" ->
                 [mutable |-> FALSE, tag |-> "F64", bits |-> <<0, 0, 53248, 16516>>]]

\* what the instance behind a handle holds (an instance that is not one of
\* the host's own starts as a copy of the host's)
Content(st, ref) ==
    IF ref \in DOMAIN st THEN st[ref]
    ELSE HostStoreNew[[ref EXCEPT !.owner = "spectest"]]

\* MemoryInstance::grow / TableInstance::grow through a handle: refused
\* beyond the maximum the instance was allocated with
grow(st, ref, delta) ==
    IF Content(st, ref).size + delta <= Content(st, ref).maximum
    THEN Ok(Content(st, ref).size)
    ELSE Err([kind |-> "Memory", msg |-> <<"Trying to grow by ", delta>>])

\* the instances after a grow through a handle
grow_store(st, ref, delta) ==
    IF IsOk(grow(st, ref, delta))
    THEN [r \in DOMAIN st \cup {ref} |->
             IF r = ref
             THEN [Content(st, ref) EXCEPT !.size = @ + delta]
             ELSE st[r]]
    ELSE st

\* FuncInstance::alloc_host(signature, index)
AllocHost(func_type, index) ==
    [kind |-> "host_func", signature |-> func_type, index |-> index]

\* invoke_index that returns a trap for an index it does not know
invoke_index_trap(index, args) ==
    IF index = 0
    THEN Ok(None)
    ELSE Err([kind |-> "Trap", msg |-> <<"no function at index ", index>>])

\* Externals::invoke_index: the value returned
invoke_index(index, args) ==
    IF index = PRINT_FUNC_INDEX
    THEN Ok(None)
    ELSE Panic(<<"SpecModule doesn't provide function at index ", index>>)

\* no println! in a call
NoOutput == <<>>

\* Externals::invoke_index: the line written with println!
invoke_print(index, args) ==
    IF index = PRINT_FUNC_INDEX THEN <<"print: ", args>> ELSE NoOutput

\* a match that gives every print function an index of its own
PrintIndex_distinct(field_name) ==
    CASE field_name = "print" -> Some(0)
      [] field_name = "print_i32" -> Some(1)
      [] field_name = "print_i32_f32" -> Some(2)
      [] field_name = "print_f64_f64" -> Some(3)
      [] field_name = "print_f32" -> Some(4)
      [] field_name = "print_f64" -> Some(5)
      [] OTHER -> None

\* the match on field_name in SpecModule::resolve_func
PrintIndex(field_name) ==
    IF field_name \in PrintNames THEN Some(PRINT_FUNC_INDEX) ELSE None

\* resolve_func without the check of the return type
spec_resolve_func_any_return(self, field_name, func_type) ==
    IF field_name \in {"print", "print_i32", "print_i32_f32", "print_f64_f64",
                       "print_f32", "print_f64"}
    THEN Ok([kind |-> "host_func", signature |-> func_type, index |-> 0])
    ELSE Err(Instantiation(<<"Unknown host func import ", field_name>>))

\* ModuleImportResolver::resolve_func for SpecModule
spec_resolve_func(self, field_name, func_type) ==
    LET index == PrintIndex(field_name) IN
    IF ~index.some
    THEN Err(Instantiation(<<"Unknown host func import ", field_name>>))
    ELSE IF func_type.return_type.some
    THEN Err(Instantiation(<<"Function print_ have unit return type">>))
    ELSE Ok(AllocHost(func_type, index.val))

\* resolve_global whose match ends in a default arm that yields global_i32
spec_resolve_global_default(self, field_name, global_type) ==
    CASE field_name = "global_f32" -> Ok(self.global_f32)
      [] field_name = "global_f64" -> Ok(self.global_f64)
      [] OTHER -> Ok(self.global_i32)

\* ModuleImportResolver::resolve_global for SpecModule
spec_resolve_global(self, field_name, global_type) ==
    CASE field_name = "global_i32" -> Ok(self.global_i32)
      [] field_name = "global_f32" -> Ok(self.global_f32)
      [] field_name = "global_f64" -> Ok(self.global_f64)
      [] OTHER -> Err(Instantiation(<<"Unknown host global import ", field_name>>))

\* resolve_memory that hands out a copy of the memory instance
spec_resolve_memory_copy(self, field_name, memory_type) ==
    IF field_name = "memory"
    THEN Ok([self.memory EXCEPT !.owner = "copy"])
    ELSE Err(Instantiation(<<"Unknown host memory import ", field_name>>))

\* ModuleImportResolver::resolve_memory for SpecModule
spec_resolve_memory(self, field_name, memory_type) ==
    IF field_name = "memory"
    THEN Ok(self.memory)
    ELSE Err(Instantiation(<<"Unknown host memory import ", field_name>>))

\* ModuleImportResolver::resolve_table for SpecModule
spec_resolve_table(self, field_name, table_type) ==
    IF field_name = "table"
    THEN Ok(self.table)
    ELSE Err(Instantiation(<<"Unknown host table import ", field_name>>))

----------------------------------------------------------------------------
(* A loaded module's own export resolution (the interpreter's ModuleRef):   *)
(* the modules of the model export a function f, and every module but the  *)
(* first a function print, a global global_i32, a memory and a table.      *)

ModuleExports(module, kind) ==
    CASE kind = "func"   -> IF module = 1 THEN {"f"} ELSE {"f", "print"}
      [] kind = "global" -> IF module = 1 THEN {} ELSE {"global_i32"}
      [] kind = "memory" -> IF module = 1 THEN {} ELSE {"memory"}
      [] kind = "table"  -> IF module = 1 THEN {} ELSE {"table"}

module_resolve(module, kind, field_name) ==
    IF field_name \in ModuleExports(module, kind)
    THEN Ok([kind |-> kind, owner |-> module, field |-> field_name])
    ELSE Err(Instantiation(<<"Export not found ", field_name>>))

----------------------------------------------------------------------------
(* SpecDriver: the registry.  self is [spec_module, instances, last_module] *)

\* HashMap::insert
Insert(map, key, value) ==
    [k \in DOMAIN map \cup {key} |-> IF k = key THEN value ELSE map[k]]

\* HashMap::get(..).cloned()
Get(map, key) == IF key \in DOMAIN map THEN Some(map[key]) ELSE None

EmptyMap == [k \in {} |-> 0]

\* SpecDriver::new
SpecDriverNew ==
    [spec_module |-> SpecModuleNew, instances |-> EmptyMap, last_module |-> None]

\* add_module that stores the last module only in its else branch
add_module_anonymous_only(self, name, module) ==
    IF name.some
    THEN [self EXCEPT !.instances = Insert(self.instances, name.val, module)]
    ELSE [self EXCEPT !.last_module = Some(module)]

\* add_module that inserts with entry(name).or_insert(module)
add_module_keep_first(self, name, module) ==
    LET kept == [self EXCEPT !.last_module = Some(module)] IN
    IF name.some /\ name.val \notin DOMAIN self.instances
    THEN [kept EXCEPT !.instances = Insert(self.instances, name.val, module)]
    ELSE kept

\* add_module that files an anonymous module under the empty name
add_module_default_name(self, name, module) ==
    [self EXCEPT !.last_module = Some(module),
                 !.instances = Insert(self.instances,
                                      IF name.some THEN name.val ELSE "", module)]

\* add_module that binds names to names: every name that shared the module
\* of the name written follows it to the new module
add_module_rebind_aliases(self, name, module) ==
    LET kept == [self EXCEPT !.last_module = Some(module)] IN
    IF name.some
    THEN [kept EXCEPT !.instances =
             [k \in DOMAIN self.instances \cup {name.val} |->
                 IF k = name.val THEN module
                 ELSE IF /\ name.val \in DOMAIN self.instances
                         /\ self.instances[k] = self.instances[name.val]
                      THEN module
                      ELSE self.instances[k]]]
    ELSE kept

\* SpecDriver::add_module: the driver after the call
add_module(self, name, module) ==
    LET kept == [self EXCEPT !.last_module = Some(module)] IN
    IF name.some
    THEN [kept EXCEPT !.instances = Insert(self.instances, name.val, module)]
    ELSE kept

\* module that falls back to the last module for an unknown name
module_fallback_last(self, name) ==
    LET found == Get(self.instances, name) IN
    IF found.some
    THEN Ok(found.val)
    ELSE IF self.last_module.some
         THEN Ok(self.last_module.val)
         ELSE Err(Instantiation(<<"Module not registered ", name>>))

\* module that unwraps the entry instead of returning an error
module_unwrap(self, name) ==
    LET found == Get(self.instances, name) IN
    IF found.some
    THEN Ok(found.val)
    ELSE Panic(<<"called Option::unwrap() on a None value">>)

\* SpecDriver::module
module(self, name) ==
    LET found == Get(self.instances, name) IN
    IF found.some
    THEN Ok(found.val)
    ELSE Err(Instantiation(<<"Module not registered ", name>>))

\* module_or_last that takes the last module when the name is unknown
module_or_last_fallback(self, name) ==
    IF name.some /\ name.val \in DOMAIN self.instances
    THEN Ok(self.instances[name.val])
    ELSE IF self.last_module.some
         THEN Ok(self.last_module.val)
         ELSE Err(Instantiation(<<"No modules registered">>))

\* SpecDriver::module_or_last
module_or_last(self, name) ==
    IF name.some
    THEN module(self, name.val)
    ELSE IF self.last_module.some
         THEN Ok(self.last_module.val)
         ELSE Err(Instantiation(<<"No modules registered">>))

\* register that returns the error of module_or_last with ?
register_propagate(self, name, as_name) ==
    LET found == IF name.some
                 THEN module(self, name.val)
                 ELSE IF self.last_module.some
                      THEN Ok(self.last_module.val)
                      ELSE Err(Instantiation(<<"No modules registered">>)) IN
    IF IsOk(found) THEN Ok(Unit) ELSE found

\* SpecDriver::register: the value returned
register(self, name, as_name) ==
    IF IsOk(module_or_last(self, name))
    THEN Ok(Unit)
    ELSE Err(Instantiation(<<"No such modules registered">>))

\* register that inserts the alias without going through add_module
register_self_alias_only(self, name, as_name) ==
    LET found == IF name.some
                 THEN module(self, name.val)
                 ELSE IF self.last_module.some
                      THEN Ok(self.last_module.val)
                      ELSE Err(Instantiation(<<"No modules registered">>)) IN
    IF IsOk(found)
    THEN [self EXCEPT !.instances = Insert(self.instances, as_name, found.val)]
    ELSE self

\* register that aliases the last module whatever the source name
register_self_always_last(self, name, as_name) ==
    LET found == IF name.some
                 THEN module(self, name.val)
                 ELSE IF self.last_module.some
                      THEN Ok(self.last_module.val)
                      ELSE Err(Instantiation(<<"No modules registered">>)) IN
    IF IsOk(found)
    THEN [self EXCEPT !.instances =
                          Insert(self.instances, as_name, self.last_module.val)]
    ELSE self

\* register that aliases the last module when the named source is unknown,
\* and still reports the failure
register_self_fallback(self, name, as_name) ==
    LET found == IF name.some /\ name.val \in DOMAIN self.instances
                 THEN Some(self.instances[name.val])
                 ELSE self.last_module IN
    IF found.some
    THEN [self EXCEPT !.last_module = found,
                      !.instances = Insert(self.instances, as_name, found.val)]
    ELSE self

\* SpecDriver::register: the driver after the call
register_self(self, name, as_name) ==
    LET found == module_or_last(self, name) IN
    IF IsOk(found) THEN add_module(self, Some(as_name), found.val) ELSE self

\* the `?` on self.module(module_name): an Err returns early, as it is
Try(found, kind, field_name) ==
    IF IsOk(found) THEN module_resolve(found.val, kind, field_name) ELSE found

\* resolve_func without the reserved module name
resolve_func_registry_only(self, module_name, field_name, func_type) ==
    LET found == Get(self.instances, module_name) IN
    IF found.some
    THEN IF field_name \in (IF found.val = 1 THEN {"f"} ELSE {"f", "print"})
         THEN Ok([kind |-> "func", owner |-> found.val, field |-> field_name])
         ELSE Err(Instantiation(<<"Export not found ", field_name>>))
    ELSE Err(Instantiation(<<"Module not registered ", module_name>>))

\* resolve_func that asks the registry first and the host only for a
\* "spectest" that is not registered
resolve_func_registry_first(self, module_name, field_name, func_type) ==
    LET found == Get(self.instances, module_name) IN
    IF found.some
    THEN IF field_name \in (IF found.val = 1 THEN {"f"} ELSE {"f", "print"})
         THEN Ok([kind |-> "func", owner |-> found.val, field |-> field_name])
         ELSE Err(Instantiation(<<"Export not found ", field_name>>))
    ELSE IF module_name = "spectest"
    THEN IF field_name \notin {"print", "print_i32", "print_i32_f32",
                               "print_f64_f64", "print_f32", "print_f64"}
         THEN Err(Instantiation(<<"Unknown host func import ", field_name>>))
         ELSE IF func_type.return_type.some
         THEN Err(Instantiation(<<"Function print_ have unit return type">>))
         ELSE Ok([kind |-> "host_func", signature |-> func_type, index |-> 0])
    ELSE Err(Instantiation(<<"Module not registered ", module_name>>))

\* ImportResolver::resolve_func for SpecDriver
resolve_func(self, module_name, field_name, func_type) ==
    IF module_name = "spectest"
    THEN spec_resolve_func(self.spec_module, field_name, func_type)
    ELSE Try(module(self, module_name), "func", field_name)

\* ImportResolver::resolve_global for SpecDriver
resolve_global(self, module_name, field_name, global_type) ==
    IF module_name = "spectest"
    THEN spec_resolve_global(self.spec_module, field_name, global_type)
    ELSE Try(module(self, module_name), "global", field_name)

\* ImportResolver::resolve_memory for SpecDriver
resolve_memory(self, module_name, field_name, memory_type) ==
    IF module_name = "spectest"
    THEN spec_resolve_memory(self.spec_module, field_name, memory_type)
    ELSE Try(module(self, module_name), "memory", field_name)

\* ImportResolver::resolve_table for SpecDriver
resolve_table(self, module_name, field_name, table_type) ==
    IF module_name = "spectest"
    THEN spec_resolve_table(self.spec_module, field_name, table_type)
    ELSE Try(module(self, module_name), "table", field_name)

----------------------------------------------------------------------------
(* The value marshaller.  An integer or a bit pattern of w bits is the      *)
(* tuple of its 16-bit limbs, least significant first: i32 and u32 have 2  *)
(* limbs, i64 and u64 have 4, u128 has 8.                                  *)

\* f32::from_bits / f64::from_bits followed by .into(): the interpreter's
\* float, which keeps the bit pattern it was made from
from_bits(bits) == [float_bits |-> bits]

\* to_bits that goes through the numeric value: every NaN becomes the
\* canonical quiet NaN
to_bits_canonical(float) ==
    LET bits == float.float_bits
        n == Len(bits)
        top == bits[n] % 32768
        expmask == IF n = 2 THEN 32640 ELSE 32752
        isnan == /\ top >= expmask
                 /\ (top # expmask \/ \E k \in 1..(n - 1) : bits[k] # 0)
    IN IF isnan
       THEN [k \in 1..n |-> IF k = n THEN (IF n = 2 THEN 32704 ELSE 32760) ELSE 0]
       ELSE bits

\* F32::to_bits / F64::to_bits
to_bits(float) == float.float_bits

\* runtime_value_to_boundary_value
runtime_value_to_boundary_value(rv) ==
    CASE rv.tag = "I32" -> Ok([tag |-> "I32", val |-> rv.val])
      [] rv.tag = "I64" -> Ok([tag |-> "I64", val |-> rv.val])
      [] rv.tag = "F32" -> Ok([tag |-> "F32", val |-> to_bits(rv.val)])
      [] rv.tag = "F64" -> Ok([tag |-> "F64", val |-> to_bits(rv.val)])

\* boundary_value_to_runtime_value that returns an error for V128
boundary_value_to_runtime_value_err(bv) ==
    IF bv.tag = "V128"
    THEN Err([kind |-> "Unsupported", msg |-> <<"Not supported yet!">>])
    ELSE IF bv.tag \in {"F32", "F64"}
         THEN Ok([tag |-> bv.tag, val |-> [float_bits |-> bv.val]])
         ELSE Ok([tag |-> bv.tag, val |-> bv.val])

\* boundary_value_to_runtime_value
boundary_value_to_runtime_value(bv) ==
    CASE bv.tag = "I32" -> Ok([tag |-> "I32", val |-> bv.val])
      [] bv.tag = "I64" -> Ok([tag |-> "I64", val |-> bv.val])
      [] bv.tag = "F32" -> Ok([tag |-> "F32", val |-> from_bits(bv.val)])
      [] bv.tag = "F64" -> Ok([tag |-> "F64", val |-> from_bits(bv.val)])
      [] bv.tag = "V128" -> Panic(<<"Not supported yet!">>)

\* result_covert
result_covert(res) ==
    IF IsErr(res)
    THEN Ok(res)
    ELSE IF res.val.some
         THEN LET bv == runtime_value_to_boundary_value(res.val.val) IN
              IF IsOk(bv) THEN Ok(Ok(Some(bv.val))) ELSE bv
         ELSE Ok(Ok(None))

\* bit patterns the model draws values from
\* 0, -0.0 (or i32::MIN), a quiet NaN with a payload, a signalling NaN
Bits32 == { <<0, 0>>, <<0, 32768>>, <<1, 32704>>, <<1, 32640>> }
Bits64 == { <<0, 0, 0, 32768>>, <<1, 0, 0, 32760>>, <<1, 0, 0, 32752>> }
Bits128 == { <<0, 0, 0, 0, 0, 0, 0, 0>>, <<1, 0, 0, 0, 0, 0, 0, 32768>> }

\* the values of the model, as tag and bit pattern
TaggedBits == ({"I32", "F32"} \X Bits32) \cup ({"I64", "F64"} \X Bits64)

\* BoundaryValue::I32(i32) .. F64(u64), and V128(u128)
BoundaryValue(tag, bits) == [tag |-> tag, val |-> bits]

\* RuntimeValue::I32(i32), I64(i64), F32(F32), F64(F64)
RuntimeValue(tag, bits) ==
    IF tag \in {"F32", "F64"}
    THEN [tag |-> tag, val |-> from_bits(bits)]
    ELSE [tag |-> tag, val |-> bits]

\* SgxWasmAction::Invoke { module, field, args }
Invoke(module_name, field, args) ==
    [action |-> "Invoke", module |-> module_name, field |-> field, args |-> args]

\* argument lists of Invoke commands
BoundaryArgLists ==
    { << BoundaryValue("I32", <<1, 0>>), BoundaryValue("I32", <<0, 32768>>) >>,
      << BoundaryValue("V128", <<1, 0, 0, 0, 0, 0, 0, 32768>>) >>,
      << BoundaryValue("F32", <<1, 32640>>),
         BoundaryValue("V128", <<0, 0, 0, 0, 0, 0, 0, 0>>),
         BoundaryValue("I64", <<1, 0, 0, 32760>>) >> }

\* RuntimeArgs the host functions are called with
ArgLists ==
    { <<>>,
      << RuntimeValue("F64", <<0, 0, 0, 32768>>),
         RuntimeValue("F64", <<1, 0, 0, 32760>>) >> }

----------------------------------------------------------------------------
(* The state machine *)

\* the SpecDriver value the variables hold
Self ==
    [spec_module |-> spec_module, instances |-> instances,
     last_module |-> last_module]

Init ==
    /\ spec_module = SpecDriverNew.spec_module
    /\ instances = SpecDriverNew.instances
    /\ last_module = SpecDriverNew.last_module
    /\ printed = NoOutput
    /\ status = "running"
    /\ op = [name |-> "new"]
    /\ ret = Ok(Unit)
    /\ written = EmptyMap
    /\ added = FALSE
    /\ stored = None
    /\ store = HostStoreNew
    /\ held = [i \in Importers |-> [memory |-> None, table |-> None]]

\* one call: the call and its outcome are recorded, a panic ends the process
Call(o, r, self2, out) ==
    /\ status = "running"
    /\ op' = o
    /\ ret' = r
    /\ status' = IF IsPanic(r) THEN "aborted" ELSE "running"
    /\ spec_module' = self2.spec_module
    /\ instances' = self2.instances
    /\ last_module' = self2.last_module
    /\ printed' = out
    /\ UNCHANGED <<store, held>>

\* fields and signatures used for imports resolved through the driver
DriverFields(kind) ==
    CASE kind = "func"   -> {"print", "f", "nope"}
      [] kind = "global" -> {"global_i32", "nope"}
      [] kind = "memory" -> {"memory", "nope"}
      [] kind = "table"  -> {"table", "nope"}
DriverSignatures ==
    { [params |-> <<"I32">>, return_type |-> None],
      [params |-> <<"I32">>, return_type |-> Some("I32")] }

OptNames == {None} \cup {Some(n) : n \in Names}

AddModule ==
    \E name \in OptNames, m \in Handles :
        /\ Call([name |-> "add_module", module_name |-> name, module |-> m,
                 previous |-> IF name.some THEN Get(instances, name.val) ELSE None,
                 last_before |-> last_module],
                Ok(Unit), add_module(Self, name, m), NoOutput)
        /\ written' = IF name.some THEN Insert(written, name.val, m) ELSE written
        /\ added' = TRUE
        /\ stored' = Some(m)

Module ==
    \E name \in Names :
        /\ Call([name |-> "module", module_name |-> name],
                module(Self, name), Self, NoOutput)
        /\ UNCHANGED <<written, added, stored>>

ModuleOrLast ==
    \E name \in OptNames :
        /\ Call([name |-> "module_or_last", module_name |-> name],
                module_or_last(Self, name), Self, NoOutput)
        /\ UNCHANGED <<written, added, stored>>

Register ==
    \E name \in OptNames, as_name \in Names :
        LET r == register(Self, name, as_name)
            source == module_or_last(Self, name) IN
        /\ Call([name |-> "register", module_name |-> name, as_name |-> as_name,
                 source |-> source, previous |-> Get(instances, as_name),
                 last_before |-> last_module],
                r, register_self(Self, name, as_name), NoOutput)
        /\ written' = IF IsOk(r) THEN Insert(written, as_name, source.val)
                      ELSE written
        /\ stored' = IF IsOk(r) THEN Some(source.val) ELSE stored
        /\ UNCHANGED added

ResolveFunc ==
    \E module_name \in Names, field_name \in DriverFields("func"),
       func_type \in DriverSignatures :
        /\ Call([name |-> "resolve_func", module_name |-> module_name,
                 field_name |-> field_name, desc |-> func_type],
                resolve_func(Self, module_name, field_name, func_type),
                Self, NoOutput)
        /\ UNCHANGED <<written, added, stored>>

ResolveGlobal ==
    \E module_name \in Names, field_name \in DriverFields("global"),
       global_type \in GlobalDescriptors :
        /\ Call([name |-> "resolve_global", module_name |-> module_name,
                 field_name |-> field_name, desc |-> global_type],
                resolve_global(Self, module_name, field_name, global_type),
                Self, NoOutput)
        /\ UNCHANGED <<written, added, stored>>

ResolveMemory ==
    \E module_name \in Names, field_name \in DriverFields("memory"),
       memory_type \in MemoryDescriptors :
        /\ Call([name |-> "resolve_memory", module_name |-> module_name,
                 field_name |-> field_name, desc |-> memory_type],
                resolve_memory(Self, module_name, field_name, memory_type),
                Self, NoOutput)
        /\ UNCHANGED <<written, added, stored>>

ResolveTable ==
    \E module_name \in Names, field_name \in DriverFields("table"),
       table_type \in TableDescriptors :
        /\ Call([name |-> "resolve_table", module_name |-> module_name,
                 field_name |-> field_name, desc |-> table_type],
                resolve_table(Self, module_name, field_name, table_type),
                Self, NoOutput)
        /\ UNCHANGED <<written, added, stored>>

SpecResolveFunc ==
    \E field_name \in FieldNames, func_type \in Signatures :
        /\ Call([name |-> "spec_resolve_func", field_name |-> field_name,
                 desc |-> func_type],
                spec_resolve_func(spec_module, field_name, func_type),
                Self, NoOutput)
        /\ UNCHANGED <<written, added, stored>>

SpecResolveGlobal ==
    \E field_name \in FieldNames, global_type \in GlobalDescriptors :
        /\ Call([name |-> "spec_resolve_global", field_name |-> field_name,
                 desc |-> global_type],
                spec_resolve_global(spec_module, field_name, global_type),
                Self, NoOutput)
        /\ UNCHANGED <<written, added, stored>>

SpecResolveMemory ==
    \E field_name \in FieldNames, memory_type \in MemoryDescriptors :
        /\ Call([name |-> "spec_resolve_memory", field_name |-> field_name,
                 desc |-> memory_type],
                spec_resolve_memory(spec_module, field_name, memory_type),
                Self, NoOutput)
        /\ UNCHANGED <<written, added, stored>>

SpecResolveTable ==
    \E field_name \in FieldNames, table_type \in TableDescriptors :
        /\ Call([name |-> "spec_resolve_table", field_name |-> field_name,
                 desc |-> table_type],
                spec_resolve_table(spec_module, field_name, table_type),
                Self, NoOutput)
        /\ UNCHANGED <<written, added, stored>>

InvokeIndex ==
    \E index \in 0..MaxIndex, args \in ArgLists :
        /\ Call([name |-> "invoke_index", index |-> index, args |-> args],
                invoke_index(index, args), Self,
                invoke_print(index, args))
        /\ UNCHANGED <<written, added, stored>>

\* the interpreter calls the host function that the resolution before it
\* has returned: FuncInstance::alloc_host(_, index) is invoked with its index
InvokeResolved ==
    \E args \in ArgLists :
        /\ op.name \in {"spec_resolve_func", "resolve_func"}
        /\ IsOk(ret)
        /\ ret.val.kind = "host_func"
        /\ Call([name |-> "invoke_resolved", via |-> op.name, func |-> ret.val,
                 index |-> ret.val.index, args |-> args],
                invoke_index(ret.val.index, args), Self,
                invoke_print(ret.val.index, args))
        /\ UNCHANGED <<written, added, stored>>

RuntimeToBoundary ==
    \E t \in TaggedBits :
        LET rv == RuntimeValue(t[1], t[2]) IN
        /\ Call([name |-> "runtime_value_to_boundary_value", rv |-> rv],
                runtime_value_to_boundary_value(rv), Self, NoOutput)
        /\ UNCHANGED <<written, added, stored>>

BoundaryToRuntime ==
    \E t \in TaggedBits \cup ({"V128"} \X Bits128) :
        LET bv == BoundaryValue(t[1], t[2]) IN
        /\ Call([name |-> "boundary_value_to_runtime_value", bv |-> bv],
                boundary_value_to_runtime_value(bv), Self, NoOutput)
        /\ UNCHANGED <<written, added, stored>>

ResultCovert ==
    \/ \E t \in TaggedBits :
        LET res == Ok(Some(RuntimeValue(t[1], t[2]))) IN
        /\ Call([name |-> "result_covert", res |-> res],
                result_covert(res), Self, NoOutput)
        /\ UNCHANGED <<written, added, stored>>
    \/ \E field_name \in {"f", "nope"}, none \in BOOLEAN :
        LET res == IF none THEN Ok(None)
                   ELSE Err(Instantiation(<<"Export not found ", field_name>>)) IN
        /\ Call([name |-> "result_covert", res |-> res],
                result_covert(res), Self, NoOutput)
        /\ UNCHANGED <<written, added, stored>>

\* the instantiation of an importing module resolves its memory import
\* through the driver and keeps the handle
ImportMemory ==
    \E i \in Importers, field_name \in DriverFields("memory"),
       memory_type \in MemoryDescriptors :
        LET r == resolve_memory(Self, "spectest", field_name, memory_type) IN
        /\ status = "running"
        /\ op' = [name |-> "import_memory", importer |-> i,
                  field_name |-> field_name, desc |-> memory_type]
        /\ ret' = r
        /\ held' = IF IsOk(r) THEN [held EXCEPT ![i].memory = Some(r.val)] ELSE held
        /\ printed' = NoOutput
        /\ UNCHANGED <<spec_module, instances, last_module, status, written,
                       added, stored, store>>

\* the same for its table import
ImportTable ==
    \E i \in Importers, field_name \in DriverFields("table"),
       table_type \in TableDescriptors :
        LET r == resolve_table(Self, "spectest", field_name, table_type) IN
        /\ status = "running"
        /\ op' = [name |-> "import_table", importer |-> i,
                  field_name |-> field_name, desc |-> table_type]
        /\ ret' = r
        /\ held' = IF IsOk(r) THEN [held EXCEPT ![i].table = Some(r.val)] ELSE held
        /\ printed' = NoOutput
        /\ UNCHANGED <<spec_module, instances, last_module, status, written,
                       added, stored, store>>

\* an importing module grows the memory or the table it holds a handle of
Grow ==
    \E i \in Importers, kind \in {"memory", "table"}, delta \in {1, 5} :
        /\ status = "running"
        /\ held[i][kind].some
        /\ LET ref == held[i][kind].val IN
           /\ op' = [name |-> "grow", importer |-> i, kind |-> kind,
                     delta |-> delta, size_before |-> Content(store, ref).size]
           /\ ret' = grow(store, ref, delta)
           /\ store' = grow_store(store, ref, delta)
        /\ printed' = NoOutput
        /\ UNCHANGED <<spec_module, instances, last_module, status, written,
                       added, stored, held>>

\* the harness builds an Invoke command; nothing is converted yet
SgxWasmInvoke ==
    \E module_name \in {None, Some("m")}, args \in BoundaryArgLists :
        /\ Call([name |-> "Invoke", module_name |-> module_name,
                 field_name |-> "f", args |-> args],
                Ok(Invoke(module_name, "f", args)), Self, NoOutput)
        /\ UNCHANGED <<written, added, stored>>

\* the registry and the resolver
Next ==
    \/ AddModule
    \/ Module
    \/ ModuleOrLast
    \/ Register
    \/ ResolveFunc
    \/ ResolveGlobal
    \/ ResolveMemory
    \/ ResolveTable

Spec == Init /\ [][Next]_vars

\* the host environment on its own
NextHost ==
    \/ SpecResolveFunc
    \/ SpecResolveGlobal
    \/ SpecResolveMemory
    \/ SpecResolveTable
    \/ InvokeIndex
    \/ InvokeResolved

SpecHost == Init /\ [][NextHost]_vars

\* modules that import the host's resources and use them
NextShare ==
    \/ ImportMemory
    \/ ImportTable
    \/ SpecResolveGlobal
    \/ Grow

SpecShare == Init /\ [][NextShare]_vars

\* the marshaller
NextMarshal ==
    \/ RuntimeToBoundary
    \/ BoundaryToRuntime
    \/ ResultCovert
    \/ SgxWasmInvoke

\* every operation of the core
NextAll ==
    \/ Next
    \/ NextHost
    \/ NextMarshal

SpecAll == Init /\ [][NextAll]_vars

TypeOK ==
    /\ status \in {"running", "aborted"}
    /\ DOMAIN instances \subseteq Names
    /\ \A n \in DOMAIN instances : instances[n] \in Handles
    /\ last_module \in {None} \cup {Some(h) : h \in Handles}
    /\ printed = NoOutput \/ op.name = "invoke_index"
    /\ DOMAIN written \subseteq Names
    /\ added \in BOOLEAN
    /\ stored \in {None} \cup {Some(h) : h \in Handles}
    /\ DOMAIN held = Importers
    /\ \A ref \in DOMAIN HostStoreNew : ref \in DOMAIN store

----------------------------------------------------------------------------
(* Properties of the registry, checked under Spec *)

\* the four ImportResolver methods of SpecDriver
ResolveOps == {"resolve_func", "resolve_global", "resolve_memory", "resolve_table"}

RegisterOk == op.name = "register" /\ IsOk(ret)

\* lookup_or_last(None) of a driver whose last-loaded slot holds `last`
LastOf(last) == module_or_last([Self EXCEPT !.last_module = last], None)

\* C1: every add (named or not) and every successful register updates the
\* last-loaded slot: right after add(name?, h), lookup_or_last(None) returns h,
\* and right after a successful register it returns the module that register
\* resolved from its source.
C1_LastLoadedUpdated ==
    /\ op.name = "add_module" => module_or_last(Self, None) = Ok(op.module)
    /\ RegisterOk => module_or_last(Self, None) = op.source

\* a named add onto a driver whose last module was another one
C1_Witness ==
    /\ op.name = "add_module"
    /\ op.module_name.some
    /\ op.last_before.some
    /\ op.last_before.val # op.module
    /\ last_module = Some(op.module)

\* C2, as claimed: a successful register leaves the last-loaded slot alone,
\* lookup_or_last(None) returns the same module after it as before it.
C2_RegisterKeepsLast ==
    RegisterOk => module_or_last(Self, None) = LastOf(op.last_before)

\* C2, amended: a successful register stores the module resolved from its
\* source as last loaded, so lookup_or_last(None) returns the same module as
\* before exactly when the source resolved to the module that already was the
\* last loaded one.
C2_RegisterSetsLast ==
    RegisterOk =>
        /\ last_module = Some(op.source.val)
        /\ (module_or_last(Self, None) = LastOf(op.last_before))
               <=> (op.source = LastOf(op.last_before))

\* a register of a named source that is not the last loaded module
C2_Witness ==
    /\ RegisterOk
    /\ op.module_name.some
    /\ op.last_before.some
    /\ op.source.val # op.last_before.val
    /\ last_module # op.last_before

\* the kind of import an ImportResolver method is about
KindOf(name) ==
    CASE name = "resolve_func" -> "func"
      [] name = "resolve_global" -> "global"
      [] name = "resolve_memory" -> "memory"
      [] name = "resolve_table" -> "table"

\* the host environment's answer for the request in op
HostAnswer ==
    CASE op.name = "resolve_func" ->
             spec_resolve_func(spec_module, op.field_name, op.desc)
      [] op.name = "resolve_global" ->
             spec_resolve_global(spec_module, op.field_name, op.desc)
      [] op.name = "resolve_memory" ->
             spec_resolve_memory(spec_module, op.field_name, op.desc)
      [] op.name = "resolve_table" ->
             spec_resolve_table(spec_module, op.field_name, op.desc)

\* C3: import resolution is two-level.  A request for module "spectest" gets
\* the host environment's answer for the field; a request for another module
\* fails with an Instantiation error when the registry has no such name, and
\* otherwise gets the answer of the named module's own export resolution.
C3_TwoLevelResolution ==
    op.name \in ResolveOps =>
        IF op.module_name = "spectest"
        THEN ret = HostAnswer
        ELSE IF op.module_name \notin DOMAIN instances
        THEN IsErr(ret) /\ ret.err.kind = "Instantiation"
        ELSE ret = module_resolve(instances[op.module_name], KindOf(op.name),
                                  op.field_name)

\* a function import answered by the exports of a registered module
C3_Witness ==
    /\ op.name = "resolve_func"
    /\ op.module_name = "m"
    /\ "m" \in DOMAIN instances
    /\ IsOk(ret)
    /\ ret.val.owner = instances["m"]
    /\ ret.val.field = "f"

\* C4: names are unique keys and the last writer wins: lookup(n) returns the
\* module of the latest add(Some(n), _) or successful register(_, n), and no
\* add or register fails because the name is taken.
C4_LastWriterWins ==
    /\ \A n \in DOMAIN written : module(Self, n) = Ok(written[n])
    /\ op.name = "add_module" => ret = Ok(Unit)
    /\ (op.name = "register" /\ IsOk(op.source)) => ret = Ok(Unit)

\* a name bound to one module is bound again to another one
C4_Witness ==
    /\ op.name \in {"add_module", "register"}
    /\ IsOk(ret)
    /\ op.previous.some
    /\ op.name = "add_module" => op.module_name.some /\ op.previous.val # op.module
    /\ op.name = "register" => op.previous.val # op.source.val

\* C5: lookup(name) returns a module exactly when an earlier add or successful
\* register used that name, and fails otherwise with an Instantiation error
\* that carries the name; no step turns a lookup that succeeds into one that
\* fails.
C5_LookupExactly ==
    /\ [](\A n \in Names :
            /\ IsOk(module(Self, n)) <=> n \in DOMAIN written
            /\ n \notin DOMAIN written =>
                   /\ IsErr(module(Self, n))
                   /\ module(Self, n).err.kind = "Instantiation"
                   /\ module(Self, n).err.msg[2] = n)
    /\ [][\A n \in Names : IsOk(module(Self, n)) => IsOk(module(Self, n)')]_vars

\* a lookup fails while other names are registered and a module is loaded
C5_Witness ==
    /\ op.name = "module"
    /\ IsErr(ret)
    /\ ret.err.msg[2] = op.module_name
    /\ DOMAIN instances # {}
    /\ last_module.some

\* C6: lookup_or_last(Some(n)) is lookup(n); lookup_or_last(None) fails with
\* "No modules registered" exactly when no add has happened on the driver, and
\* otherwise returns the module stored latest.
C6_LookupOrLast ==
    /\ \A n \in Names : module_or_last(Self, Some(n)) = module(Self, n)
    /\ IsErr(module_or_last(Self, None)) <=> ~added
    /\ ~added =>
           module_or_last(Self, None) = Err(Instantiation(<<"No modules registered">>))
    /\ added => stored.some /\ module_or_last(Self, None) = Ok(stored.val)

\* add(None, h1), then add(None, h2): lookup_or_last(None) returns h2
C6_Witness ==
    /\ op.name = "add_module"
    /\ ~op.module_name.some
    /\ DOMAIN instances = {}
    /\ op.last_before = Some(1)
    /\ op.module = 2
    /\ module_or_last(Self, None) = Ok(2)

\* C7: an alias refers to the module of its source: after a successful
\* register(Some(m), alias), lookup(alias) and lookup(m) return the same module;
\* after register(None, alias), lookup(alias) returns the module that was last
\* loaded, named or not.
C7_Aliasing ==
    RegisterOk =>
        /\ IsOk(module(Self, op.as_name))
        /\ op.module_name.some =>
               module(Self, op.module_name.val) = module(Self, op.as_name)
        /\ ~op.module_name.some =>
               module(Self, op.as_name) = Ok(op.last_before.val)

\* an alias of a named module that is not the last loaded one
C7_Witness ==
    /\ RegisterOk
    /\ op.module_name.some
    /\ op.module_name.val # op.as_name
    /\ op.source.val # op.last_before.val
    /\ instances[op.as_name] = instances[op.module_name.val]

\* C8: register fails exactly when its source does not resolve (a named
\* source that is not in the registry, or no source name before any load),
\* and then returns the one generic Instantiation error, never the error of
\* the lookup underneath.
C8_RegisterError ==
    op.name = "register" =>
        /\ IsErr(ret) <=> IsErr(op.source)
        /\ IsErr(ret) =>
               /\ IF op.module_name.some
                  THEN op.module_name.val \notin DOMAIN instances
                  ELSE ~added
               /\ ret = Err(Instantiation(<<"No such modules registered">>))
               /\ ret # op.source
        /\ IsOk(ret) =>
               IF op.module_name.some
               THEN op.module_name.val \in DOMAIN instances
               ELSE added

\* a register of an unknown name fails while a module is loaded
C8_Witness ==
    /\ op.name = "register"
    /\ IsErr(ret)
    /\ op.module_name.some
    /\ last_module.some
    /\ op.source = Err(Instantiation(<<"Module not registered ", op.module_name.val>>))

----------------------------------------------------------------------------
(* Properties of every operation of the core, checked under SpecAll *)

\* the dispatcher was called with an index it does not know
UnknownIndexCall == op.name = "invoke_index" /\ op.index # PRINT_FUNC_INDEX

\* a V128 boundary value was converted to a native value
V128Conversion == op.name = "boundary_value_to_runtime_value" /\ op.bv.tag = "V128"

\* C9, as claimed: the process aborts only when the host dispatcher is called
\* with an unknown function index.
C9_OnlyDispatchAborts ==
    status = "aborted" => UnknownIndexCall

\* C9, amended: the process aborts in exactly two cases, a call of the host
\* dispatcher with an unknown function index and the conversion of a V128
\* boundary value to a native value; every other call of the registry, the
\* host environment and the marshaller returns a value or an error value, and
\* further calls can be made after it.
C9_TwoAbortPaths ==
    /\ status = "aborted" <=> IsPanic(ret)
    /\ IsPanic(ret) <=> (UnknownIndexCall \/ V128Conversion)
    /\ ~IsPanic(ret) =>
           /\ IsOk(ret) \/ IsErr(ret)
           /\ status = "running"
           /\ ENABLED NextAll

\* the conversion of a V128 value has aborted a driver with loaded modules
C9_Witness ==
    /\ status = "aborted"
    /\ V128Conversion
    /\ DOMAIN instances # {}

----------------------------------------------------------------------------
(* Properties of the host environment, checked under SpecHost *)

\* C10: the host's resolve_func succeeds exactly for the six print names with
\* a unit return type, and every function it returns has index 0; any other
\* field fails, whatever the signature, with an Instantiation error naming the
\* field; a print name with a return type fails with an Instantiation error.
C10_HostResolveFunc ==
    op.name = "spec_resolve_func" =>
        LET known == op.field_name \in
                         {"print", "print_i32", "print_i32_f32", "print_f64_f64",
                          "print_f32", "print_f64"}
            unit == ~op.desc.return_type.some IN
        /\ IsOk(ret) <=> (known /\ unit)
        /\ IsOk(ret) =>
               /\ ret.val.kind = "host_func"
               /\ ret.val.index = 0
               /\ ret.val.signature = op.desc
        /\ ~known =>
               ret = Err(Instantiation(<<"Unknown host func import ", op.field_name>>))
        /\ (known /\ ~unit) => IsErr(ret) /\ ret.err.kind = "Instantiation"

\* print_i32 asked for with a return type is refused
C10_Witness ==
    /\ op.name = "spec_resolve_func"
    /\ op.field_name = "print_i32"
    /\ op.desc.return_type.some
    /\ IsErr(ret)
    /\ ret.err.kind = "Instantiation"

----------------------------------------------------------------------------
(* Properties of the host resolvers of globals, memory and table, checked   *)
(* under SpecAll: called on the host itself or through the driver under    *)
(* the module name "spectest".                                             *)

\* the call in op reaches the host's resolver of `kind`
HostCall(kind) ==
    \/ op.name = "spec_resolve_" \o kind
    \/ op.name = "resolve_" \o kind /\ op.module_name = "spectest"

\* C11: the host's resolve_global succeeds exactly for global_i32, global_f32
\* and global_f64, resolve_memory exactly for memory and resolve_table exactly
\* for table, whatever descriptor is passed; every other field fails with an
\* Instantiation error that carries the field name.
C11_HostResolveOthers ==
    LET known(kind) == CASE kind = "global" -> {"global_i32", "global_f32", "global_f64"}
                         [] kind = "memory" -> {"memory"}
                         [] kind = "table" -> {"table"}
        answers(kind, d) ==
            CASE kind = "global" -> spec_resolve_global(spec_module, op.field_name, d)
              [] kind = "memory" -> spec_resolve_memory(spec_module, op.field_name, d)
              [] kind = "table" -> spec_resolve_table(spec_module, op.field_name, d)
        descriptors(kind) ==
            CASE kind = "global" -> GlobalDescriptors
              [] kind = "memory" -> MemoryDescriptors
              [] kind = "table" -> TableDescriptors
    IN \A kind \in {"global", "memory", "table"} :
           HostCall(kind) =>
               /\ IsOk(ret) <=> op.field_name \in known(kind)
               /\ IsOk(ret) => ret.val.kind = kind /\ ret.val.field = op.field_name
               /\ ~IsOk(ret) =>
                      /\ IsErr(ret)
                      /\ ret.err.kind = "Instantiation"
                      /\ ret.err.msg[Len(ret.err.msg)] = op.field_name
               /\ \A d \in descriptors(kind) : answers(kind, d) = ret

\* the global "nope" asked for through the driver under "spectest"
C11_Witness ==
    /\ op.name = "resolve_global"
    /\ op.module_name = "spectest"
    /\ op.field_name = "nope"
    /\ IsErr(ret)
    /\ ret.err.msg = <<"Unknown host global import ", "nope">>

----------------------------------------------------------------------------
(* Properties of the sharing of the host's resources, checked under         *)
(* SpecShare                                                               *)

\* the handle the host has kept since its construction for a field
HostCell(field_name) ==
    CASE field_name = "table" -> spec_module.table
      [] field_name = "memory" -> spec_module.memory
      [] field_name = "global_i32" -> spec_module.global_i32
      [] field_name = "global_f32" -> spec_module.global_f32
      [] field_name = "global_f64" -> spec_module.global_f64

\* C12: host resources are shared, never copied: every resolve_table,
\* resolve_memory and resolve_global that succeeds returns the handle of the
\* one instance allocated at construction, for every importer and in any
\* order, so that a grow made through one importer's handle is seen through
\* the handle of every other importer and of the host.
C12_SharedResources ==
    /\ spec_module = SpecModuleNew
    /\ (op.name \in {"import_memory", "import_table", "spec_resolve_global"}
            /\ IsOk(ret)) => ret.val = HostCell(op.field_name)
    /\ \A i \in Importers, kind \in {"memory", "table"} :
           held[i][kind].some =>
               /\ held[i][kind].val = HostCell(kind)
               /\ Content(store, held[i][kind].val) = Content(store, HostCell(kind))
    /\ (op.name = "grow" /\ IsOk(ret)) =>
           /\ Content(store, HostCell(op.kind)).size = op.size_before + op.delta
           /\ \A j \in Importers :
                  held[j][op.kind].some =>
                      Content(store, held[j][op.kind].val).size
                          = op.size_before + op.delta

\* a memory grow by one importer seen through the handle of another one
C12_Witness ==
    /\ op.name = "grow"
    /\ op.kind = "memory"
    /\ IsOk(ret)
    /\ \E j \in Importers :
           /\ j # op.importer
           /\ held[j].memory.some
           /\ Content(store, held[j].memory.val).size = 2
           /\ Content(HostStoreNew, held[j].memory.val).size = 1

----------------------------------------------------------------------------
(* Properties of the marshaller, checked under SpecAll *)

C15_V128Aborts ==
    /\ V128Conversion =>
           /\ IsPanic(ret)
           /\ ret.msg = <<"Not supported yet!">>
           /\ status = "aborted"
    /\ op.name = "Invoke" =>
           /\ IsOk(ret)
           /\ status = "running"
           /\ ret.val.args = op.args

\* a V128 value with a payload other than zero was converted
C15_Witness ==
    /\ V128Conversion
    /\ op.bv.val = <<1, 0, 0, 0, 0, 0, 0, 32768>>
    /\ IsPanic(ret)
    /\ status = "aborted"

\* an Invoke command carries a V128 argument
C15_Carried ==
    /\ op.name = "Invoke"
    /\ \E k \in 1..Len(op.args) : ret.val.args[k].tag = "V128"
    /\ status = "running"

----------------------------------------------------------------------------
(* Properties of the host dispatcher *)

\* C14, checked under SpecHost: invoke_index with index 0 returns Ok(None)
\* for every argument list, never a trap, and writes the arguments; with any
\* other index it returns nothing at all, it aborts.
C14_HostInvoke ==
    op.name = "invoke_index" =>
        IF op.index = 0
        THEN /\ ret = Ok(None)
             /\ status = "running"
             /\ printed = <<"print: ", op.args>>
        ELSE /\ IsPanic(ret)
             /\ ~IsErr(ret)
             /\ status = "aborted"
             /\ printed = NoOutput

\* the print of two F64 values returns nothing and logs both
C14_Witness ==
    /\ op.name = "invoke_index"
    /\ op.index = 0
    /\ Len(op.args) = 2
    /\ op.args[1].tag = "F64"
    /\ ret = Ok(None)
    /\ printed[2] = op.args

\* C17, checked under SpecAll: the abort of the dispatcher cannot be reached
\* through resolution: every host function that resolve_func returns, on the
\* host or through the driver under "spectest", has index 0, and the call of
\* a resolved host function returns Ok(None) and never aborts.
C17_ResolvedNeverAborts ==
    /\ (op.name \in {"spec_resolve_func", "resolve_func"} /\ IsOk(ret)
            /\ ret.val.kind = "host_func") => ret.val.index = PRINT_FUNC_INDEX
    /\ op.name = "invoke_resolved" =>
           /\ op.index = PRINT_FUNC_INDEX
           /\ ret = Ok(None)
           /\ status = "running"

\* print_f64, resolved through the driver under "spectest", was called
C17_Witness ==
    /\ op.name = "invoke_resolved"
    /\ op.via = "resolve_func"
    /\ op.func.index = 0
    /\ Len(op.args) = 2
    /\ ret = Ok(None)
    /\ status = "running"

----------------------------------------------------------------------------
(* Frame properties of the registry, checked under Spec *)

\* the name a call of add_module or of a successful register writes
WrittenName(o, r) ==
    IF o.name = "add_module" THEN o.module_name
    ELSE IF o.name = "register" /\ IsOk(r) THEN Some(o.as_name)
    ELSE None

\* C16: an anonymous add only updates the last-loaded slot: add(None, h)
\* leaves the mapping from names to modules as it is, and add(Some(n), h)
\* changes it at the key n only.
C16_AddFrame ==
    [][op'.name = "add_module" =>
          /\ ~op'.module_name.some => instances' = instances
          /\ op'.module_name.some =>
                 /\ DOMAIN instances' = DOMAIN instances \cup {op'.module_name.val}
                 /\ \A k \in DOMAIN instances \ {op'.module_name.val} :
                        instances'[k] = instances[k]
          /\ \A k \in Names :
                 WrittenName(op', ret') # Some(k) =>
                     module(Self, k)' = module(Self, k)]_vars

\* an anonymous add onto a registry that has names
C16_Witness ==
    /\ op.name = "add_module"
    /\ ~op.module_name.some
    /\ DOMAIN instances # {}
    /\ op.last_before # Some(op.module)
    /\ last_module = Some(op.module)

\* the calls that only read the driver
ReadOps == {"module", "module_or_last"} \cup ResolveOps

\* C18: failed and read-only operations leave the registry untouched: a
\* register whose source does not resolve, and every lookup, lookup_or_last
\* and import resolution, failed or not, leave the mapping and the
\* last-loaded slot as they were.
C18_ReadsAndFailuresFrame ==
    [][(op'.name \in ReadOps \/ (op'.name = "register" /\ IsErr(ret'))) =>
          /\ instances' = instances
          /\ last_module' = last_module
          /\ spec_module' = spec_module
          /\ \A n \in OptNames : module_or_last(Self, n)' = module_or_last(Self, n)]_vars

\* a register of an unknown name has failed on a registry with a module
C18_Witness ==
    /\ op.name = "register"
    /\ IsErr(ret)
    /\ op.module_name.some
    /\ DOMAIN instances # {}
    /\ last_module = op.last_before
    /\ last_module.some

\* C19: an alias is bound to the module, not to the name it was made from:
\* binding a name again with add or register changes what that name resolves
\* to and nothing that any other name resolves to, so after add(Some(m), h1),
\* register(Some(m), a), add(Some(m), h2) lookup(a) is still h1 and lookup(m)
\* is h2.
C19_AliasKeepsModule ==
    /\ [](op.name = "add_module" /\ op.module_name.some =>
             module(Self, op.module_name.val) = Ok(op.module))
    /\ [][\A k \in Names :
              module(Self, k)' # module(Self, k) => WrittenName(op', ret') = Some(k)]_vars

\* m is bound to a second module while another name keeps the first one
C19_Witness ==
    /\ op.name = "add_module"
    /\ op.module_name = Some("m")
    /\ op.previous.some
    /\ op.previous.val # op.module
    /\ "a" \in DOMAIN instances
    /\ instances["a"] = op.previous.val
    /\ instances["m"] = op.module
    /\ written["a"] = op.previous.val

\* C20: the reserved name shadows the registry: add(Some("spectest"), h) and
\* register(_, "spectest") are accepted and make lookup("spectest") return the
\* module, and still every import from "spectest" is answered by the host
\* environment and never by the exports of that module.
C20_ReservedNameShadows ==
    /\ (op.name = "add_module" /\ op.module_name = Some("spectest")) =>
           ret = Ok(Unit) /\ module(Self, "spectest") = Ok(op.module)
    /\ (op.name = "register" /\ op.as_name = "spectest") =>
           /\ IsOk(ret) <=> IsOk(op.source)
           /\ IsOk(ret) => module(Self, "spectest") = op.source
    /\ \A field_name \in FieldNames :
           /\ \A func_type \in Signatures :
                  resolve_func(Self, "spectest", field_name, func_type)
                      = spec_resolve_func(spec_module, field_name, func_type)
           /\ \A d \in GlobalDescriptors :
                  resolve_global(Self, "spectest", field_name, d)
                      = spec_resolve_global(spec_module, field_name, d)
           /\ \A d \in MemoryDescriptors :
                  resolve_memory(Self, "spectest", field_name, d)
                      = spec_resolve_memory(spec_module, field_name, d)
           /\ \A d \in TableDescriptors :
                  resolve_table(Self, "spectest", field_name, d)
                      = spec_resolve_table(spec_module, field_name, d)
    /\ (op.name \in ResolveOps /\ op.module_name = "spectest" /\ IsOk(ret)) =>
           \/ ret.val.kind = "host_func"
           \/ ret.val.owner = "spectest"

\* print is imported from "spectest" while a module that exports print is
\* registered under that name: the host's function is returned
C20_Witness ==
    /\ op.name = "resolve_func"
    /\ op.module_name = "spectest"
    /\ op.field_name = "print"
    /\ "spectest" \in DOMAIN instances
    /\ "print" \in ModuleExports(instances["spectest"], "func")
    /\ IsOk(ret)
    /\ ret.val.kind = "host_func"

====
